---- MODULE Spec2Model ----
(***************************************************************************)
(* Model of the rope text buffer of src/src/rope.h: an AVL-balanced tree   *)
(* of leaves, each holding at most ROPE_NODE_CAPACITY bytes, behind the    *)
(* facade Rope = (root, total_length).                                     *)
(*                                                                         *)
(* The heap is a function from allocated addresses to RopeNode records;    *)
(* `new RopeNode()` extends its domain and `delete` shrinks it.  A leaf's  *)
(* data field holds the live bytes data[0..length); the bytes of the array *)
(* past length are indeterminate: a read of them (or of memory past the    *)
(* array) yields the byte Stale, which stands for every value such a read  *)
(* can produce; a cell of fresh storage holds Unwritten until written.     *)
(***************************************************************************)
EXTENDS Integers, Sequences, FiniteSets, TLC

VARIABLES heap, root, total_length, status, last,
          cursor_pos, has_selection, selection_start, selection_end,
          undo_stack, redo_stack, rope_version

\* The fields of struct Editor (editor.h:45-83) that the editing commands
\* read and write; its rope is (heap, root, total_length).
edvars == <<cursor_pos, has_selection, selection_start, selection_end,
            undo_stack, redo_stack, rope_version>>

vars == <<heap, root, total_length, status, last,
          cursor_pos, has_selection, selection_start, selection_end,
          undo_stack, redo_stack, rope_version>>

(* ------------------------------ bounds --------------------------------- *)
\* Leaf capacity, scaled down from the 512 of rope.h:13.
ROPE_NODE_CAPACITY == 2
\* Largest total_length the model lets an insertion reach.
MaxLen == 4
\* Largest number of allocated nodes the model lets an operation reach.
MaxNodes == 9

(* ----------------------------- basic sets ------------------------------ *)
NULL == 0

\* A char* that is null: every string the program holds ends with its NUL
\* and so is not empty.
NoString == <<>>

\* The values of a text byte.  rope.h moves text with memcpy and memmove and
\* never reads the value of a byte (strlen reads only whether it is NUL), so
\* two values, which tell neighbouring positions apart, stand for the 255.
Char == {1, 2}

\* A byte of a C string: NUL or a text byte.
Byte == {0} \cup Char

\* What a read outside the live bytes of a leaf yields: some byte, the same
\* on every later read of the cell it was copied to.
Stale == -1

\* A cell of fresh storage (new char[n], a caller's buffer) before any write:
\* a read of it can yield any byte.
Unwritten == -2

\* Stand-in for 2^64, the modulus of size_t arithmetic (TLC integers are
\* 32 bits wide, every length of the model is far below it).
SIZE_MOD == 1073741824

Min(a, b) == IF a <= b THEN a ELSE b

Max(a, b) == IF a >= b THEN a ELSE b

\* size_t subtraction a - b, wrapping modulo SIZE_MOD.
SizeSub(a, b) == IF a >= b THEN a - b ELSE SIZE_MOD - (b - a)

SeqsUpTo(S, n) == UNION {[1..k -> S] : k \in 0..n}

(* ------------------------------- nodes --------------------------------- *)
\* RopeNode(): the state a constructor leaves a fresh node in.
RopeNode ==
  [left |-> NULL, right |-> NULL, height |-> 1, weight |-> 0,
   is_leaf |-> TRUE, data |-> <<>>, length |-> 0]

\* operator new: the lowest address that is not allocated.
New(h) ==
  CHOOSE p \in 1..(Cardinality(DOMAIN h) + 1) :
    /\ p \notin DOMAIN h
    /\ \A q \in 1..(p - 1) : q \in DOMAIN h

\* operator delete.  (Joined with the empty function, which has TLC hold
\* the heap as an explicit function.)
Delete(h, p) == [q \in (DOMAIN h) \ {p} |-> h[q]] @@ <<>>

\* The heap with the node `rec` constructed at the address p.
Store(h, p, rec) == (p :> rec) @@ h

\* rope_node_create_leaf that stores all len bytes it is given.
rope_node_create_leaf_unbounded(h, src, len) ==
  LET node == New(h)
  IN [h |-> Store(h, node, [RopeNode EXCEPT !.is_leaf = TRUE,
                                              !.length = len,
                                              !.data = SubSeq(src, 1, len),
                                              !.weight = len]),
      p |-> node]

\* memcpy(node->data, str, min(len, CAPACITY)) out of a source of which
\* `src` lists the bytes from str[0] on.
rope_node_create_leaf(h, src, len) ==
  LET node == New(h)
      n == Min(len, ROPE_NODE_CAPACITY)
  IN [h |-> Store(h, node, [RopeNode EXCEPT !.is_leaf = TRUE,
                                              !.length = n,
                                              !.data = SubSeq(src, 1, n),
                                              !.weight = n]),
      p |-> node]

rope_node_get_height(h, node) == IF node = NULL THEN 0 ELSE h[node].height

RECURSIVE rope_node_get_weight(_, _)
rope_node_get_weight(h, node) ==
  IF node = NULL THEN 0
  ELSE IF h[node].is_leaf THEN h[node].length
  ELSE rope_node_get_weight(h, h[node].left)
       + rope_node_get_weight(h, h[node].right)

rope_node_update(h, node) ==
  IF node = NULL THEN h
  ELSE [h EXCEPT ![node].height =
                   1 + Max(rope_node_get_height(h, h[node].left),
                           rope_node_get_height(h, h[node].right)),
                 ![node].weight =
                   IF h[node].is_leaf THEN h[node].length
                   ELSE rope_node_get_weight(h, h[node].left)]

rope_node_create_internal(h, left, right) ==
  LET node == New(h)
      h1 == Store(h, node, [RopeNode EXCEPT !.is_leaf = FALSE,
                                            !.left = left, !.right = right])
  IN [h |-> rope_node_update(h1, node), p |-> node]

rope_node_balance_factor(h, node) ==
  IF node = NULL THEN 0
  ELSE rope_node_get_height(h, h[node].left)
       - rope_node_get_height(h, h[node].right)

\* rope_node_rotate_right that does not update y, the node it moves down.
rope_node_rotate_right_keeps_y(h, y) ==
  LET x == h[y].left
      T2 == h[x].right
      h1 == [h EXCEPT ![x].right = y, ![y].left = T2]
  IN [h |-> rope_node_update(h1, x), p |-> x]

\* rope_node_rotate_right that hands y the left subtree of x, which x keeps.
rope_node_rotate_right_shares(h, y) ==
  LET x == h[y].left
      h1 == [h EXCEPT ![x].right = y, ![y].left = h[x].left]
  IN [h |-> rope_node_update(rope_node_update(h1, y), x), p |-> x]

rope_node_rotate_right(h, y) ==
  LET x == h[y].left
      T2 == h[x].right
      h1 == [h EXCEPT ![x].right = y, ![y].left = T2]
  IN [h |-> rope_node_update(rope_node_update(h1, y), x), p |-> x]

\* rope_node_rotate_left that does not update x, the node it moves down.
rope_node_rotate_left_keeps_x(h, x) ==
  LET y == h[x].right
      T2 == h[y].left
      h1 == [h EXCEPT ![y].left = x, ![x].right = T2]
  IN [h |-> rope_node_update(h1, y), p |-> y]

rope_node_rotate_left(h, x) ==
  LET y == h[x].right
      T2 == h[y].left
      h1 == [h EXCEPT ![y].left = x, ![x].right = T2]
  IN [h |-> rope_node_update(rope_node_update(h1, x), y), p |-> y]

\* rope_node_balance that makes single rotations only.
rope_node_balance_single_rotation(h, node) ==
  IF node = NULL THEN [h |-> h, p |-> NULL]
  ELSE
    LET h1 == rope_node_update(h, node)
        balance == rope_node_balance_factor(h1, node)
    IN IF balance > 1 THEN rope_node_rotate_right(h1, node)
       ELSE IF balance < -1 THEN rope_node_rotate_left(h1, node)
       ELSE [h |-> h1, p |-> node]

\* rope_node_balance that updates the node and makes no rotation.
rope_node_balance_updates_only(h, node) ==
  IF node = NULL THEN [h |-> h, p |-> NULL]
  ELSE [h |-> rope_node_update(h, node), p |-> node]

rope_node_balance(h, node) ==
  IF node = NULL THEN [h |-> h, p |-> NULL]
  ELSE
    LET h1 == rope_node_update(h, node)
        balance == rope_node_balance_factor(h1, node)
    IN IF balance > 1 THEN
         IF rope_node_balance_factor(h1, h1[node].left) < 0 THEN
           LET r == rope_node_rotate_left(h1, h1[node].left)
           IN rope_node_rotate_right([r.h EXCEPT ![node].left = r.p], node)
         ELSE rope_node_rotate_right(h1, node)
       ELSE IF balance < -1 THEN
         IF rope_node_balance_factor(h1, h1[node].right) > 0 THEN
           LET r == rope_node_rotate_right(h1, h1[node].right)
           IN rope_node_rotate_left([r.h EXCEPT ![node].right = r.p], node)
         ELSE rope_node_rotate_left(h1, node)
       ELSE [h |-> h1, p |-> node]

(* ------------------------------ insertion ------------------------------ *)
\* The split point of the bulk build without the step from 0 to one leaf.
BulkMidAligned(len) ==
  ((len \div 2) \div ROPE_NODE_CAPACITY) * ROPE_NODE_CAPACITY

\* The split point of the bulk build at len / 2, on no leaf boundary.
BulkMidHalf(len) == len \div 2

\* Where the bulk build of len > ROPE_NODE_CAPACITY bytes cuts its input:
\* len / 2 rounded down to a multiple of the capacity, one leaf if that is 0.
BulkMid(len) ==
  LET aligned == ((len \div 2) \div ROPE_NODE_CAPACITY) * ROPE_NODE_CAPACITY
  IN IF aligned = 0 THEN ROPE_NODE_CAPACITY ELSE aligned

\* LeafRead that starts at data[0] whatever `from` is.
LeafRead_from_start(h, node, from, n) ==
  [i \in 1..n |-> IF i <= h[node].length
                  THEN h[node].data[i] ELSE Stale]

\* n bytes read from a leaf's array starting at data[from]: live bytes where
\* the read stays inside [0, length), indeterminate bytes elsewhere.
LeafRead(h, node, from, n) ==
  [i \in 1..n |-> IF from + i <= h[node].length
                  THEN h[node].data[from + i] ELSE Stale]

\* The routing tests at an internal node: whether the operation recurses
\* into the left child.
rope_node_insert_routes_left(h, node, pos) == pos <= h[node].weight

\* The test of rope_node_insert used for deletion.
rope_node_delete_routes_as_insert(h, node, pos) ==
  pos <= rope_node_get_weight(h, h[node].left)

rope_node_delete_routes_left(h, node, pos) ==
  pos < rope_node_get_weight(h, h[node].left)

rope_node_copy_routes_left(h, node, pos) ==
  pos < rope_node_get_weight(h, h[node].left)

\* rope_node_insert(node, pos, str, len) with len = Len(str).  The result
\* is the heap, the returned node, and fault: "no" for a call that stays
\* inside the live bytes of the leaf it reaches; "wild" when pos > length at
\* a leaf with room, where memmove is asked for (length - pos) mod 2^64
\* bytes: the program dies, or the move overwrites the head of the node and
\* returns (the build of this repository returns with is_leaf read as false
\* and both children null); "may" when pos > length at a leaf that is split,
\* where bytes outside [0, length) are read into the new leaves (and the
\* read may leave mapped memory).
RECURSIVE rope_node_insert(_, _, _, _)
rope_node_insert(h, node, pos, str) ==
  LET len == Len(str) IN
  IF node = NULL THEN
    IF len <= ROPE_NODE_CAPACITY THEN
      LET r == rope_node_create_leaf(h, str, len)
      IN [h |-> r.h, p |-> r.p, fault |-> "no"]
    ELSE
      LET mid == BulkMid(len)
          l == rope_node_insert(h, NULL, 0, SubSeq(str, 1, mid))
          r == rope_node_insert(l.h, NULL, 0, SubSeq(str, mid + 1, len))
          n == rope_node_create_internal(r.h, l.p, r.p)
      IN [h |-> n.h, p |-> n.p, fault |-> "no"]
  ELSE IF h[node].is_leaf THEN
    IF h[node].length + len <= ROPE_NODE_CAPACITY THEN
      IF pos > h[node].length THEN
        LET h1 == [h EXCEPT ![node].is_leaf = FALSE,
                            ![node].data = [k \in 1..(h[node].length + len)
                                              |-> Stale],
                            ![node].length = @ + len]
        IN [h |-> rope_node_update(h1, node), p |-> node, fault |-> "wild"]
      ELSE
        LET d == h[node].data
            h1 == [h EXCEPT ![node].data =
                       SubSeq(d, 1, pos) \o str \o SubSeq(d, pos + 1, Len(d)),
                     ![node].length = @ + len]
        IN [h |-> rope_node_update(h1, node), p |-> node, fault |-> "no"]
    ELSE
      LET left_len == Min(pos, ROPE_NODE_CAPACITY)
          right_len == Min(SizeSub(h[node].length, pos), ROPE_NODE_CAPACITY)
          left_node == rope_node_create_leaf(h,
                            LeafRead(h, node, 0, left_len), pos)
          right_node == rope_node_create_leaf(left_node.h,
                            LeafRead(h, node, pos, right_len),
                            SizeSub(h[node].length, pos))
          new_text_node == rope_node_create_leaf(right_node.h, str, len)
          left_tree == rope_node_create_internal(new_text_node.h,
                            left_node.p, new_text_node.p)
          result == rope_node_create_internal(left_tree.h,
                            left_tree.p, right_node.p)
          b == rope_node_balance(Delete(result.h, node), result.p)
      IN [h |-> b.h, p |-> b.p,
          fault |-> IF pos > h[node].length THEN "may" ELSE "no"]
  ELSE
    IF rope_node_insert_routes_left(h, node, pos) THEN
      LET r == rope_node_insert(h, h[node].left, pos, str)
          b == rope_node_balance([r.h EXCEPT ![node].left = r.p], node)
      IN [h |-> b.h, p |-> b.p, fault |-> r.fault]
    ELSE
      LET r == rope_node_insert(h, h[node].right, pos - h[node].weight, str)
          b == rope_node_balance([r.h EXCEPT ![node].right = r.p], node)
      IN [h |-> b.h, p |-> b.p, fault |-> r.fault]

(* ------------------------------ deletion ------------------------------- *)
RECURSIVE rope_node_delete(_, _, _, _)
rope_node_delete(h, node, pos, len) ==
  IF node = NULL \/ len = 0 THEN [h |-> h, p |-> node]
  ELSE IF h[node].is_leaf THEN
    IF pos >= h[node].length THEN [h |-> h, p |-> node]
    ELSE
      LET d == h[node].data
          actual_len == Min(len, h[node].length - pos)
          h1 == [h EXCEPT ![node].data =
                     SubSeq(d, 1, pos) \o SubSeq(d, pos + actual_len + 1, Len(d)),
                   ![node].length = @ - actual_len]
          h2 == rope_node_update(h1, node)
      IN IF h2[node].length = 0 THEN [h |-> Delete(h2, node), p |-> NULL]
         ELSE [h |-> h2, p |-> node]
  ELSE
    LET left_weight == rope_node_get_weight(h, h[node].left)
        left_delete_len == Min(len, left_weight - pos)
        h1 == IF rope_node_delete_routes_left(h, node, pos) THEN
                LET l == rope_node_delete(h, h[node].left, pos, left_delete_len)
                    hl == [l.h EXCEPT ![node].left = l.p]
                IN IF len > left_delete_len THEN
                     LET r == rope_node_delete(hl, hl[node].right, 0,
                                               len - left_delete_len)
                     IN [r.h EXCEPT ![node].right = r.p]
                   ELSE hl
              ELSE
                LET r == rope_node_delete(h, h[node].right,
                                          pos - left_weight, len)
                IN [r.h EXCEPT ![node].right = r.p]
    IN IF h1[node].left = NULL /\ h1[node].right = NULL THEN
         [h |-> Delete(h1, node), p |-> NULL]
       ELSE IF h1[node].left = NULL THEN
         [h |-> Delete(h1, node), p |-> h1[node].right]
       ELSE IF h1[node].right = NULL THEN
         [h |-> Delete(h1, node), p |-> h1[node].left]
       ELSE rope_node_balance(h1, node)

(* -------------------------------- copy --------------------------------- *)
\* memcpy(buffer + off, src, n) into the storage buf (cells 0.. are buf[1]..).
MemCpy(buf, off, src) ==
  [i \in 1..Len(buf) |->
     IF i > off /\ i <= off + Len(src) THEN src[i - off] ELSE buf[i]]

\* rope_node_copy(node, pos, buffer + off, len): the storage afterwards and
\* the count returned.
RECURSIVE rope_node_copy(_, _, _, _, _, _)
rope_node_copy(h, node, pos, buf, off, len) ==
  IF node = NULL \/ len = 0 THEN [buf |-> buf, n |-> 0]
  ELSE IF h[node].is_leaf THEN
    IF pos >= h[node].length THEN [buf |-> buf, n |-> 0]
    ELSE
      LET copy_len == Min(len, h[node].length - pos)
      IN [buf |-> MemCpy(buf, off, SubSeq(h[node].data, pos + 1, pos + copy_len)),
          n |-> copy_len]
  ELSE
    LET left_weight == rope_node_get_weight(h, h[node].left) IN
    IF rope_node_copy_routes_left(h, node, pos) THEN
      LET l == rope_node_copy(h, h[node].left, pos, buf, off, len) IN
      IF l.n < len THEN
        LET r == rope_node_copy(h, h[node].right, 0, l.buf, off + l.n, len - l.n)
        IN [buf |-> r.buf, n |-> l.n + r.n]
      ELSE l
    ELSE rope_node_copy(h, h[node].right, pos - left_weight, buf, off, len)

(* ------------------------------- facade -------------------------------- *)
\* A Rope (root, total_length) with the heap it lives in, and the fault of
\* the call that produced it.
RopeOf(h, r, n) == [h |-> h, root |-> r, total_length |-> n, fault |-> "no"]

rope_init(rope) == [rope EXCEPT !.root = NULL, !.total_length = 0]

rope_length(rope) == rope.total_length

\* rope_insert counting the bytes a leaf can take instead of len.
rope_insert_counts_stored(rope, pos, str) ==
  IF Len(str) = 0 THEN rope
  ELSE LET r == rope_node_insert(rope.h, rope.root, pos, str)
       IN [h |-> r.h, root |-> r.p,
           total_length |-> rope.total_length
                            + Min(Len(str), ROPE_NODE_CAPACITY),
           fault |-> r.fault]

\* rope_insert without the early return for len = 0.
rope_insert_any_len(rope, pos, str) ==
  LET r == rope_node_insert(rope.h, rope.root, pos, str)
  IN [h |-> r.h, root |-> r.p,
      total_length |-> rope.total_length + Len(str),
      fault |-> r.fault]

rope_insert(rope, pos, str) ==
  IF Len(str) = 0 THEN rope
  ELSE LET r == rope_node_insert(rope.h, rope.root, pos, str)
       IN [h |-> r.h, root |-> r.p,
           total_length |-> rope.total_length + Len(str),
           fault |-> r.fault]

\* strlen(str): the bytes before the first NUL.
StrLen(str) ==
  IF \E i \in 1..Len(str) : str[i] = 0
  THEN (CHOOSE i \in 1..Len(str) :
          str[i] = 0 /\ \A j \in 1..(i - 1) : str[j] # 0) - 1
  ELSE Len(str)

\* rope_from_string storing every string in one leaf.
rope_from_string_one_leaf(rope, str) ==
  LET len == StrLen(str)
      empty == rope_init(rope)
      r == rope_node_create_leaf(rope.h, str, len)
  IN IF len = 0 THEN empty
     ELSE [empty EXCEPT !.h = r.h, !.root = r.p, !.total_length = len]

rope_from_string(rope, str) ==
  LET len == StrLen(str)
      empty == rope_init(rope)
  IN IF len = 0 THEN empty
     ELSE IF len <= ROPE_NODE_CAPACITY THEN
       LET r == rope_node_create_leaf(rope.h, str, len)
       IN [empty EXCEPT !.h = r.h, !.root = r.p, !.total_length = len]
     ELSE rope_insert(empty, 0, SubSeq(str, 1, len))

\* rope_delete that takes len from total_length (at most all of it), also
\* when fewer than len bytes follow pos.
rope_delete_takes_len(rope, pos, len) ==
  IF len = 0 THEN rope
  ELSE LET r == rope_node_delete(rope.h, rope.root, pos, len)
       IN [rope EXCEPT !.h = r.h, !.root = r.p,
             !.total_length = @ - Min(len, @)]

rope_delete(rope, pos, len) ==
  IF len = 0 THEN rope
  ELSE LET r == rope_node_delete(rope.h, rope.root, pos, len)
       IN [rope EXCEPT !.h = r.h, !.root = r.p,
             !.total_length = @ - Min(len, @ - Min(pos, @))]

\* rope_copy into storage of `size` cells that nothing has written yet.
rope_copy(rope, pos, size, len) ==
  LET buf == [i \in 1..size |-> Unwritten]
  IN IF rope.root = NULL THEN [buf |-> buf, n |-> 0]
     ELSE rope_node_copy(rope.h, rope.root, pos, buf, 0, len)

\* rope_char_at: c starts as NUL and is the one cell rope_copy may write.
rope_char_at(rope, pos) ==
  LET r == rope_node_copy(rope.h, rope.root, pos, <<0>>, 0, 1)
  IN IF rope.root = NULL THEN 0 ELSE r.buf[1]

\* rope_to_string: total_length + 1 cells of fresh storage, the copy, and the
\* terminating NUL; a cell the copy did not reach stays Unwritten.
rope_to_string(rope) ==
  LET r == rope_copy(rope, 0, rope.total_length + 1, rope.total_length)
  IN [r.buf EXCEPT ![rope.total_length + 1] = 0]

RECURSIVE rope_node_free(_, _)
rope_node_free(h, node) ==
  IF node = NULL THEN h
  ELSE IF ~h[node].is_leaf THEN
    Delete(rope_node_free(rope_node_free(h, h[node].left), h[node].right), node)
  ELSE Delete(h, node)

rope_free(rope) ==
  [rope EXCEPT !.h = rope_node_free(rope.h, rope.root),
               !.root = NULL, !.total_length = 0]

(* ---------------------------- state machine ---------------------------- *)
\* The addresses `new` returns are arbitrary and no operation depends on
\* them, so a state is kept with its nodes renumbered: the nodes reachable
\* from the root in preorder, then the allocated nodes that are not
\* reachable, whose content no operation can read any more.
RECURSIVE Preorder(_, _)
Preorder(h, node) ==
  IF node = NULL THEN <<>>
  ELSE <<node>> \o Preorder(h, h[node].left) \o Preorder(h, h[node].right)

Renumber(h, r) ==
  LET order == Preorder(h, r)
      n == Len(order)
      to == [q \in {order[i] : i \in 1..n} |->
               CHOOSE i \in 1..n : order[i] = q]
      at(q) == IF q = NULL THEN NULL ELSE to[q]
  IN [i \in 1..Cardinality(DOMAIN h) |->
        IF i <= n
        THEN [h[order[i]] EXCEPT !.left = at(@), !.right = at(@)]
        ELSE RopeNode]

\* The rope the program holds.
Cur == RopeOf(heap, root, total_length)

\* Longest string one rope_insert call is given on a buffer with content.
MaxIns == ROPE_NODE_CAPACITY + 1

InsertStrings == SeqsUpTo(Char, MaxIns)

FromStrings == SeqsUpTo(Byte, MaxIns)

\* The call returns r, or faults and ends the program.  A call that read
\* stale bytes into the tree and returned leaves status "stale", one whose
\* memmove overwrote the node and returned leaves status "corrupt": the state
\* it leaves is a state of the program, and the model takes no call from it.
ReturnsWithin(r, nodes) ==
  /\ Cardinality(DOMAIN r.h) <= nodes
  /\ \E died \in {b \in BOOLEAN : b => r.fault # "no"} :
       IF died
       THEN /\ status' = "crashed"
            /\ UNCHANGED <<heap, root, total_length>>
       ELSE /\ heap' = Renumber(r.h, r.root)
            /\ root' = IF r.root = NULL THEN NULL ELSE 1
            /\ total_length' = r.total_length
            /\ status' = CASE r.fault = "may" -> "stale"
                            [] r.fault = "wild" -> "corrupt"
                            [] OTHER -> "running"

Returns(r) == ReturnsWithin(r, MaxNodes)

\* rope_init; the editor fields as editor_init leaves them
Init ==
  /\ heap = <<>>
  /\ root = NULL
  /\ total_length = 0
  /\ status = "running"
  /\ last = "init"
  /\ cursor_pos = 0
  /\ has_selection = FALSE
  /\ selection_start = 0
  /\ selection_end = 0
  /\ undo_stack = <<>>
  /\ redo_stack = <<>>
  /\ rope_version = 0

\* rope_insert(pos in [0, rope_length], str, len)
Insert ==
  /\ status = "running"
  /\ \E pos \in 0..total_length, str \in InsertStrings :
       /\ total_length + Len(str) <= MaxLen
       /\ Returns(rope_insert(Cur, pos, str))
  /\ last' = "insert"
  /\ UNCHANGED edvars

\* rope_delete(pos, len)
DeleteRange ==
  /\ status = "running"
  /\ \E pos \in 0..total_length, len \in 0..(total_length + 1) :
       Returns(rope_delete(Cur, pos, len))
  /\ last' = "delete"
  /\ UNCHANGED edvars

\* rope_from_string on a buffer that holds no tree (fresh, or after rope_free)
FromString ==
  /\ status = "running"
  /\ root = NULL
  /\ \E str \in FromStrings : Returns(rope_from_string(Cur, str))
  /\ last' = "from_string"
  /\ UNCHANGED edvars

\* rope_free
Free ==
  /\ status = "running"
  /\ Returns(rope_free(Cur))
  /\ last' = "free"
  /\ UNCHANGED edvars

Next == Insert \/ DeleteRange \/ FromString \/ Free

Spec == Init /\ [][Next]_vars

(* ------------------- bulk construction of large trees ------------------ *)
\* Longest string given to rope_from_string or to rope_insert on an empty
\* buffer.
MaxBulk == 4 * ROPE_NODE_CAPACITY

\* n pairwise different non-NUL bytes.
Iota(n) == [i \in 1..n |-> i]

\* The strings of pairwise different bytes, and the same cut by a NUL.
BulkStrings ==
  {Iota(n) : n \in 0..MaxBulk}
  \cup UNION {{[Iota(n) EXCEPT ![k] = 0] : k \in 1..n} : n \in 1..MaxBulk}

\* rope_insert(0, str, len) on the empty buffer
BulkInsert ==
  /\ status = "running"
  /\ root = NULL
  /\ \E n \in 1..MaxBulk : Returns(rope_insert(Cur, 0, Iota(n)))
  /\ last' = "insert"
  /\ UNCHANGED edvars

\* rope_from_string of a long string on a buffer that holds no tree
BulkFromString ==
  /\ status = "running"
  /\ root = NULL
  /\ \E str \in BulkStrings : Returns(rope_from_string(Cur, str))
  /\ last' = "from_string"
  /\ UNCHANGED edvars

NextBulk == BulkInsert \/ BulkFromString \/ DeleteRange \/ Free

SpecBulk == Init /\ [][NextBulk]_vars

(* --------------------------- reading a tree ---------------------------- *)
\* The leaves reachable from node, left to right.
RECURSIVE LeavesOf(_, _)
LeavesOf(h, node) ==
  IF node = NULL THEN <<>>
  ELSE IF h[node].is_leaf THEN <<node>>
  ELSE LeavesOf(h, h[node].left) \o LeavesOf(h, h[node].right)

\* The internal nodes reachable from node.
RECURSIVE InternalsOf(_, _)
InternalsOf(h, node) ==
  IF node = NULL \/ h[node].is_leaf THEN {}
  ELSE {node} \cup InternalsOf(h, h[node].left)
              \cup InternalsOf(h, h[node].right)

\* The in-order concatenation of the live bytes of the leaves under node.
RECURSIVE BytesOf(_, _)
BytesOf(h, node) ==
  IF node = NULL THEN <<>>
  ELSE IF h[node].is_leaf THEN h[node].data
  ELSE BytesOf(h, h[node].left) \o BytesOf(h, h[node].right)

Content(rope) == BytesOf(rope.h, rope.root)

\* The sum of the lengths of the leaves under node.
RECURSIVE LeafSum(_, _)
LeafSum(h, node) ==
  IF node = NULL THEN 0
  ELSE IF h[node].is_leaf THEN h[node].length
  ELSE LeafSum(h, h[node].left) + LeafSum(h, h[node].right)

\* The height of the tree under node, counted on the tree itself.
RECURSIVE Height(_, _)
Height(h, node) ==
  IF node = NULL THEN 0
  ELSE 1 + Max(Height(h, h[node].left), Height(h, h[node].right))

\* The AVL balance invariant at every internal node under node.
Balanced(h, node) ==
  \A n \in InternalsOf(h, node) :
    LET d == Height(h, h[n].left) - Height(h, h[n].right)
    IN d >= -1 /\ d <= 1

(* ------------------------------- claims -------------------------------- *)
\* T with s spliced in at offset pos.
Splice(T, pos, s) == SubSeq(T, 1, pos) \o s \o SubSeq(T, pos + 1, Len(T))

\* T without the k bytes at offset pos.
Erase(T, pos, k) == SubSeq(T, 1, pos) \o SubSeq(T, pos + k + 1, Len(T))

\* The state holds a tree of several leaves whose lengths add up to
\* total_length.
SeveralLeaves ==
  /\ root # NULL
  /\ ~heap[root].is_leaf
  /\ total_length = LeafSum(heap, root)

\* C1: in every state reached by rope_insert (pos in [0, length], any len,
\* also len > NODE_CAPACITY) and rope_delete calls, total_length equals the
\* sum of the lengths of the leaves reachable from the root.
C1_TotalLengthIsLeafSum == total_length = LeafSum(heap, root)

\* C2: for every reachable buffer with content T, every pos in [0, length]
\* and every string s (also longer than NODE_CAPACITY), after
\* rope_insert(pos, s) the in-order concatenation of the leaves is
\* T[0..pos) s T[pos..).
C2_InsertSplices ==
  LET T == Content(Cur) IN
  \A pos \in 0..Min(total_length, Len(T)), s \in InsertStrings :
    Content(rope_insert(Cur, pos, s)) = Splice(T, pos, s)

\* C3: for every reachable buffer, pos in [0, length] and string s of len
\* bytes, rope_length after rope_insert(pos, s, len) is rope_length before
\* plus len (for every call that returns).
C3_InsertAddsLen ==
  \A pos \in 0..total_length, len \in 0..MaxIns :
    rope_length(rope_insert(Cur, pos, Iota(len))) = rope_length(Cur) + len

\* An insertion has acted and left a tree of several leaves.
C3_Witness == last = "insert" /\ SeveralLeaves

\* C4: after any sequence of rope_insert and rope_delete calls with in-range
\* arguments from the empty buffer, every internal node has
\* |height(left) - height(right)| <= 1.
C4_BalancedAfterEdits ==
  last \in {"insert", "delete"} => Balanced(heap, root)

\* C5: for every NUL-free string s of any length, rope_to_string of
\* rope_from_string(s) is s and rope_length is len(s).
C5_FromStringRoundTrip ==
  \A str \in BulkStrings :
    LET r == rope_from_string(Cur, str)
        s == SubSeq(str, 1, StrLen(str))
    IN /\ rope_to_string(r) = s \o <<0>>
       /\ rope_length(r) = Len(s)

\* rope_from_string has built a tree of several leaves whose rope_to_string
\* is the string of pairwise different bytes it was given.
C5_Witness ==
  /\ last = "from_string"
  /\ SeveralLeaves
  /\ total_length > ROPE_NODE_CAPACITY
  /\ rope_to_string(Cur) = Iota(total_length) \o <<0>>

\* C6: for every input length, the tree rope_from_string builds satisfies
\* |height(left) - height(right)| <= 1 at every internal node.
C6_FromStringBalanced == last = "from_string" => Balanced(heap, root)

\* C7: for a buffer storing B and any pos in [0, |B|) and len >= 1,
\* rope_delete(pos, len) leaves B[0..pos) B[pos+k..) with
\* k = min(len, |B| - pos), and rope_length decreases by
\* min(len, length - pos), with length read as |B| or as rope_length.
C7_DeleteErases ==
  LET B == Content(Cur) IN
  \A pos \in 0..(Len(B) - 1), len \in 1..(Len(B) + 1) :
    LET r == rope_delete(Cur, pos, len)
        k == Min(len, Len(B) - pos)
    IN /\ Content(r) = Erase(B, pos, k)
       /\ rope_length(Cur) - rope_length(r)
            \in {k, Min(len, SizeSub(rope_length(Cur), pos))}

\* C8: for every reachable buffer and every pos, len: copying [pos, pos+len)
\* with rope_copy, deleting it with rope_delete and re-inserting the copied
\* bytes at pos restores rope_to_string and rope_length.
C8_CopyDeleteReinsert ==
  \A pos \in 0..total_length, len \in 0..(total_length + 1) :
    LET c == rope_copy(Cur, pos, len, len)
        d == rope_delete(Cur, pos, len)
        r == rope_insert(d, pos, SubSeq(c.buf, 1, c.n))
    IN /\ r.fault = "no"
       /\ rope_to_string(r) = rope_to_string(Cur)
       /\ rope_length(r) = rope_length(Cur)

\* C9: in every reachable buffer, for every i in [0, rope_length),
\* rope_char_at(i) is the i-th byte of rope_to_string().
C9_CharAtIsToString ==
  \A i \in 0..(total_length - 1) :
    rope_char_at(Cur, i) = rope_to_string(Cur)[i + 1]

\* C10: for every reachable buffer and every pos and len, rope_copy returns
\* c with c <= len that copies nothing past rope_length (pos + c <=
\* rope_length when c > 0; c = 0 when pos >= rope_length, when the buffer is
\* empty or when len = 0) and writes out[0..c) and no other cell.
C10_CopyBounded ==
  \A pos \in 0..(2 * MaxLen + 2), len \in 0..(MaxLen + 1) :
    LET r == rope_copy(Cur, pos, len + 1, len) IN
    /\ r.n <= len
    /\ r.n > 0 => pos + r.n <= total_length
    /\ (pos >= total_length \/ root = NULL \/ len = 0) => r.n = 0
    /\ \A j \in 1..(len + 1) : (r.buf[j] # Unwritten) <=> (j <= r.n)

\* C11: after any sequence of rope_from_string, rope_insert and rope_delete
\* calls no leaf of length 0 is reachable from the root.
C11_NoEmptyLeaf ==
  \A i \in 1..Len(LeavesOf(heap, root)) :
    heap[LeavesOf(heap, root)[i]].length > 0

\* C12: after any sequence of operations every internal node reachable from
\* the root has two non-null children.
C12_TwoChildren ==
  \A n \in InternalsOf(heap, root) :
    heap[n].left # NULL /\ heap[n].right # NULL

\* C13: after every public operation returns, the weight field of every
\* internal node is the byte count of the leaves of its left subtree.
C13_WeightIsLeftBytes ==
  \A n \in InternalsOf(heap, root) :
    heap[n].weight = LeafSum(heap, heap[n].left)

\* A tree of several internal nodes is held after an insertion or a deletion
\* that returned normally.
C13_Witness ==
  /\ status = "running"
  /\ last \in {"insert", "delete"}
  /\ Cardinality(InternalsOf(heap, root)) >= 3
  /\ \E n \in InternalsOf(heap, root) : heap[n].weight > 0

\* Every leaf under node holds at most ROPE_NODE_CAPACITY bytes.
LeavesFit(h, node) ==
  \A i \in 1..Len(LeavesOf(h, node)) :
    LET leaf == h[LeavesOf(h, node)[i]]
    IN leaf.length <= ROPE_NODE_CAPACITY /\ Len(leaf.data) = leaf.length

\* C14: after any sequence of operations every leaf reachable from the root
\* has length <= ROPE_NODE_CAPACITY, for inserts of any size and for
\* rope_from_string input of any length.
C14_LeafWithinCapacity ==
  /\ LeavesFit(heap, root)
  /\ \A n \in 0..MaxBulk :
       LET r == rope_from_string(RopeOf(<<>>, NULL, 0), Iota(n))
       IN LeavesFit(r.h, r.root)

\* An insertion longer than a leaf has acted (the tree stores less than
\* total_length) and left a full leaf.
C14_Witness ==
  /\ last = "insert"
  /\ status = "running"
  /\ total_length > LeafSum(heap, root)
  /\ \E i \in 1..Len(LeavesOf(heap, root)) :
       heap[LeavesOf(heap, root)[i]].length = ROPE_NODE_CAPACITY

\* C15: rope_insert with len = 0 and rope_delete with len = 0 leave the
\* buffer as it is (root, tree, leaf contents, total_length), for every pos,
\* also out of range.
C15_ZeroLenNoOp ==
  \A pos \in 0..(total_length + 2) :
    /\ rope_insert(Cur, pos, <<>>) = Cur
    /\ rope_delete(Cur, pos, 0) = Cur

\* A deletion has acted on a buffer of several leaves filled to MaxLen and
\* left it filled.
C15_Witness ==
  /\ last = "delete"
  /\ SeveralLeaves
  /\ total_length = MaxLen

\* The children the code follows from the nodes of S: left and right of the
\* internal nodes.
ChildrenOf(h, S) ==
  {h[n].left : n \in {m \in S : ~h[m].is_leaf}}
  \cup {h[n].right : n \in {m \in S : ~h[m].is_leaf}}

\* The nodes reached from the nodes of S by following child pointers, found
\* in at most fuel rounds (pointers to freed nodes are kept, not followed).
RECURSIVE ReachFrom(_, _, _)
ReachFrom(h, S, fuel) ==
  LET more == S \cup (ChildrenOf(h, S \cap DOMAIN h) \ {NULL})
  IN IF more = S \/ fuel = 0 THEN S ELSE ReachFrom(h, more, fuel - 1)

\* The nodes reachable from r form a strict tree: all are allocated, r is
\* the child of no node and every other node is the child of exactly one
\* node at exactly one side (so no subtree is shared and there is no cycle).
StrictTree(h, r) ==
  LET N == ReachFrom(h, {r} \ {NULL}, Cardinality(DOMAIN h) + 1)
      ParentsOf(n) == {ps \in (N \X {"left", "right"}) :
                         /\ ~h[ps[1]].is_leaf
                         /\ h[ps[1]][ps[2]] = n}
  IN /\ N \subseteq DOMAIN h
     /\ \A n \in N : Cardinality(ParentsOf(n)) = IF n = r THEN 0 ELSE 1

\* C16: after any insert or delete (with the rotations and splices it
\* makes) the nodes reachable from the root form a strict tree: every
\* node but the root is the child of exactly one node, the root of none,
\* and there is no cycle.
C16_StrictTree ==
  /\ StrictTree(heap, root)
  /\ \A pos \in 0..total_length :
       /\ \A len \in 1..MaxIns :
            LET r == rope_insert(Cur, pos, Iota(len))
            IN StrictTree(r.h, r.root)
       /\ \A len \in 1..(total_length + 1) :
            LET r == rope_delete(Cur, pos, len)
            IN StrictTree(r.h, r.root)

\* A deletion has acted and left a tree of at least three internal nodes.
C16_Witness ==
  /\ last = "delete"
  /\ status = "running"
  /\ Cardinality(InternalsOf(heap, root)) >= 3

\* The nodes allocated in h are the nodes reachable from r: none is
\* allocated but unreachable.
NoneLeaked(h, r) ==
  DOMAIN h = ReachFrom(h, {r} \ {NULL}, Cardinality(DOMAIN h) + 1)

\* C17: rope_from_string on a buffer that holds a tree releases every node
\* of that tree, and rope_free releases every node and leaves root null and
\* length 0.
C17_ReplaceAndFreeRelease ==
  /\ \A str \in FromStrings :
       LET r == rope_from_string(Cur, str)
       IN NoneLeaked(r.h, r.root)
  /\ LET f == rope_free(Cur)
     IN f.h = <<>> /\ f.root = NULL /\ f.total_length = 0

\* C18: for a rope_insert with pos > rope_length on a non-empty buffer,
\* after the call total_length is the sum of the leaf lengths, every
\* internal weight is the byte count of its left subtree, and no byte
\* outside [0, length) of a leaf was read into the tree (nor moved).
C18_MalformedInsertKeepsInvariants ==
  root # NULL =>
    \A pos \in (total_length + 1)..(total_length + 2), len \in 1..MaxIns :
      LET r == rope_insert(Cur, pos, Iota(len))
      IN /\ r.fault = "no"
         /\ r.total_length = LeafSum(r.h, r.root)
         /\ \A n \in InternalsOf(r.h, r.root) :
              r.h[n].weight = LeafSum(r.h, r.h[n].left)

\* rope_node_insert(node, pos, str, len) returns with at most fuel nested
\* calls of itself: the recursion as the code makes it, each call on a
\* slice of the input (empty tree) or on the child that pos selects.
RECURSIVE InsertReturns(_, _, _, _, _)
InsertReturns(h, node, pos, len, fuel) ==
  /\ fuel > 0
  /\ IF node = NULL THEN
       \/ len <= ROPE_NODE_CAPACITY
       \/ /\ InsertReturns(h, NULL, 0, BulkMid(len), fuel - 1)
          /\ InsertReturns(h, NULL, 0, len - BulkMid(len), fuel - 1)
     ELSE IF h[node].is_leaf THEN TRUE
     ELSE IF pos <= h[node].weight
          THEN InsertReturns(h, h[node].left, pos, len, fuel - 1)
          ELSE InsertReturns(h, h[node].right, pos - h[node].weight, len,
                             fuel - 1)

\* rope_node_delete(node, pos, len) returns with at most fuel nested calls.
RECURSIVE DeleteReturns(_, _, _, _, _)
DeleteReturns(h, node, pos, len, fuel) ==
  /\ fuel > 0
  /\ IF node = NULL \/ len = 0 THEN TRUE
     ELSE IF h[node].is_leaf THEN TRUE
     ELSE
       LET left_weight == rope_node_get_weight(h, h[node].left)
           left_delete_len == Min(len, left_weight - pos)
           l == rope_node_delete(h, h[node].left, pos, left_delete_len)
       IN IF pos < left_weight THEN
            /\ DeleteReturns(h, h[node].left, pos, left_delete_len, fuel - 1)
            /\ len > left_delete_len =>
                 DeleteReturns(l.h, h[node].right, 0, len - left_delete_len,
                               fuel - 1)
          ELSE DeleteReturns(h, h[node].right, pos - left_weight, len,
                             fuel - 1)

\* rope_node_copy(node, pos, buffer, len) returns with at most fuel nested
\* calls.
RECURSIVE CopyReturns(_, _, _, _, _)
CopyReturns(h, node, pos, len, fuel) ==
  /\ fuel > 0
  /\ IF node = NULL \/ len = 0 THEN TRUE
     ELSE IF h[node].is_leaf THEN TRUE
     ELSE
       LET left_weight == rope_node_get_weight(h, h[node].left)
           copied == rope_node_copy(h, h[node].left, pos,
                                    [i \in 1..len |-> Unwritten], 0, len).n
       IN IF pos < left_weight THEN
            /\ CopyReturns(h, h[node].left, pos, len, fuel - 1)
            /\ copied < len =>
                 CopyReturns(h, h[node].right, 0, len - copied, fuel - 1)
          ELSE CopyReturns(h, h[node].right, pos - left_weight, len, fuel - 1)

\* C19: every rope_insert, rope_delete and rope_copy call returns, for
\* every argument (also out of range), within a recursion depth bounded by
\* the height of the tree (plus the length of the input, for the bulk build),
\* and the bulk build recurses on two strictly shorter, non-empty slices.
C19_CallsReturn ==
  /\ \A len \in (ROPE_NODE_CAPACITY + 1)..(MaxBulk + 1) :
       BulkMid(len) > 0 /\ BulkMid(len) < len
  /\ \A len \in 0..(MaxBulk + 1) :
       InsertReturns(<<>>, NULL, 0, len, len + 1)
  /\ \A pos \in 0..(total_length + 2), len \in 0..(total_length + 2) :
       /\ InsertReturns(heap, root, pos, len, Height(heap, root) + len + 1)
       /\ DeleteReturns(heap, root, pos, len, Height(heap, root) + 1)
       /\ CopyReturns(heap, root, pos, len, Height(heap, root) + 1)

\* The bulk build has acted and left a tree of height three or more.
C19_Witness ==
  /\ last = "insert"
  /\ Height(heap, root) >= 3

(* ------------------------------ the editor ----------------------------- *)
\* The editing commands of src/src/editor.h over the rope: the cursor, the
\* selection and the undo and redo stacks.  The view (scroll offsets, blink
\* timer, layout cache) takes no part in what a command does to the text.

\* rope_substr(rope, pos, length, buffer) into `size` cells of fresh storage
rope_substr(rope, pos, length, size) ==
  LET rope_len == rope_length(rope)
      n == IF pos + length > rope_len THEN rope_len - pos ELSE length
  IN IF pos >= rope_len
     THEN [i \in 1..size |-> IF i = 1 THEN 0 ELSE Unwritten]
     ELSE [i \in 1..size |->
             IF i <= n THEN rope_char_at(rope, pos + i - 1)
             ELSE IF i = n + 1 THEN 0 ELSE Unwritten]

\* (c & 0xC0) == 0x80: a UTF-8 continuation byte 10xxxxxx
IsContinuation(c) == c \div 64 = 2

\* text[pos] of a C string held as a sequence; a read past its storage
\* yields some byte.
At(text, pos) == IF pos + 1 \in DOMAIN text THEN text[pos + 1] ELSE Stale

\* The editor after a handler walked back from cursor_pos through text: with
\* the cursor more than one past the text's NUL the walk read bytes that are
\* not the text's, and what it found there is any byte.
WalkedBack(ed, after) ==
  IF ed.cursor_pos > rope_length(ed.rope) + 1
  THEN [after EXCEPT !.rope.fault = "may"]
  ELSE after

RECURSIVE BackWhileContinuation(_, _)
BackWhileContinuation(text, pos) ==
  IF pos > 0 /\ IsContinuation(At(text, pos))
  THEN BackWhileContinuation(text, pos - 1)
  ELSE pos

utf8_prev_char_boundary(text, pos) ==
  IF pos = 0 THEN 0 ELSE BackWhileContinuation(text, pos - 1)

RECURSIVE ForwardWhileContinuation(_, _, _)
ForwardWhileContinuation(text, pos, max_len) ==
  IF pos < max_len /\ IsContinuation(At(text, pos))
  THEN ForwardWhileContinuation(text, pos + 1, max_len)
  ELSE pos

utf8_next_char_boundary(text, pos, max_len) ==
  IF pos >= max_len THEN max_len
  ELSE ForwardWhileContinuation(text, pos + 1, max_len)

utf8_char_length(text, pos) ==
  LET c == At(text, pos)
  IN IF c < 128 THEN 1
     ELSE IF c \div 32 = 6 THEN 2
     ELSE IF c \div 16 = 14 THEN 3
     ELSE IF c \div 8 = 30 THEN 4
     ELSE 1

CMD_INSERT == "CMD_INSERT"

CMD_DELETE == "CMD_DELETE"

MAX_UNDO_STACK == 1000

\* The `length` bytes memcpy reads from a buffer: the cells past its end are
\* not the caller's.
MemRead(content, length) ==
  [i \in 1..length |-> IF i <= Len(content) THEN content[i] ELSE Stale]

\* The oldest n elements of a stack, oldest first.
Oldest(stack, n) ==
  IF Len(stack) > n THEN SubSeq(stack, 1, n) ELSE stack

\* The newest n elements of a stack, oldest first.
Newest(stack, n) ==
  IF Len(stack) > n THEN SubSeq(stack, Len(stack) - n + 1, Len(stack))
  ELSE stack

\* The editor as a value: its rope and the fields of edvars.
EditorOf(rope, cur, sel, s_start, s_end, undo, redo, version) ==
  [rope |-> rope, cursor_pos |-> cur, has_selection |-> sel,
   selection_start |-> s_start, selection_end |-> s_end,
   undo_stack |-> undo, redo_stack |-> redo, rope_version |-> version]

\* editor_push_command that leaves the redo stack as it is.
editor_push_command_keeps_redo(ed, type, pos, content, length) ==
  LET cmd == [type |-> type, pos |-> pos, length |-> length,
              content |-> MemRead(content, length)]
  IN [ed EXCEPT !.undo_stack = Newest(Append(ed.undo_stack, cmd),
                                     MAX_UNDO_STACK)]

editor_push_command(ed, type, pos, content, length) ==
  LET cmd == [type |-> type, pos |-> pos, length |-> length,
              content |-> MemRead(content, length)]
  IN [ed EXCEPT !.redo_stack = <<>>,
                !.undo_stack = Newest(Append(ed.undo_stack, cmd),
                                     MAX_UNDO_STACK)]

\* editor_undo that leaves rope_version as it was.
editor_undo_keeps_version(ed) ==
  IF ed.undo_stack = <<>> THEN ed
  ELSE
    LET cmd == ed.undo_stack[Len(ed.undo_stack)]
        done == IF cmd.type = CMD_INSERT
                THEN [ed EXCEPT !.rope = rope_delete(ed.rope, cmd.pos, cmd.length),
                                !.cursor_pos = cmd.pos]
                ELSE IF cmd.type = CMD_DELETE
                THEN [ed EXCEPT !.rope = rope_insert(ed.rope, cmd.pos, cmd.content),
                                !.cursor_pos = cmd.pos + cmd.length]
                ELSE ed
    IN [done EXCEPT !.undo_stack = SubSeq(ed.undo_stack, 1,
                                          Len(ed.undo_stack) - 1),
                    !.redo_stack = Append(ed.redo_stack, cmd)]

editor_undo(ed) ==
  IF ed.undo_stack = <<>> THEN ed
  ELSE
    LET cmd == ed.undo_stack[Len(ed.undo_stack)]
        done == IF cmd.type = CMD_INSERT
                THEN [ed EXCEPT !.rope = rope_delete(ed.rope, cmd.pos, cmd.length),
                                !.cursor_pos = cmd.pos]
                ELSE IF cmd.type = CMD_DELETE
                THEN [ed EXCEPT !.rope = rope_insert(ed.rope, cmd.pos, cmd.content),
                                !.cursor_pos = cmd.pos + cmd.length]
                ELSE ed
    IN [done EXCEPT !.undo_stack = SubSeq(ed.undo_stack, 1,
                                          Len(ed.undo_stack) - 1),
                    !.redo_stack = Append(ed.redo_stack, cmd),
                    !.rope_version = ed.rope_version + 1]

editor_redo(ed) ==
  IF ed.redo_stack = <<>> THEN ed
  ELSE
    LET cmd == ed.redo_stack[Len(ed.redo_stack)]
        done == IF cmd.type = CMD_INSERT
                THEN [ed EXCEPT !.rope = rope_insert(ed.rope, cmd.pos, cmd.content),
                                !.cursor_pos = cmd.pos + cmd.length]
                ELSE IF cmd.type = CMD_DELETE
                THEN [ed EXCEPT !.rope = rope_delete(ed.rope, cmd.pos, cmd.length),
                                !.cursor_pos = cmd.pos]
                ELSE ed
    IN [done EXCEPT !.redo_stack = SubSeq(ed.redo_stack, 1,
                                          Len(ed.redo_stack) - 1),
                    !.undo_stack = Append(ed.undo_stack, cmd),
                    !.rope_version = ed.rope_version + 1]

editor_select_all(ed) ==
  [ed EXCEPT !.has_selection = TRUE,
             !.selection_start = 0,
             !.selection_end = rope_length(ed.rope),
             !.cursor_pos = rope_length(ed.rope)]

editor_cut(ed) ==
  LET start == Min(ed.selection_start, ed.selection_end)
      end == Max(ed.selection_start, ed.selection_end)
      length == end - start
      deleted_text == rope_substr(ed.rope, start, length, length + 1)
      pushed == editor_push_command(ed, CMD_DELETE, start, deleted_text, length)
  IN IF ~ed.has_selection THEN ed
     ELSE [pushed EXCEPT !.rope = rope_delete(ed.rope, start, length),
                         !.cursor_pos = start,
                         !.has_selection = FALSE,
                         !.rope_version = ed.rope_version + 1]

\* editor_paste with the string platform_get_clipboard returns, a null
\* pointer when the clipboard holds nothing.
editor_paste(ed, clipboard_text) ==
  LET paste_len == StrLen(clipboard_text)
      start == Min(ed.selection_start, ed.selection_end)
      end == Max(ed.selection_start, ed.selection_end)
      length == end - start
      deleted_text == rope_substr(ed.rope, start, length, length + 1)
      pushed == editor_push_command(ed, CMD_DELETE, start, deleted_text, length)
      e == IF ed.has_selection
           THEN [pushed EXCEPT !.rope = rope_delete(ed.rope, start, length),
                               !.cursor_pos = start,
                               !.has_selection = FALSE,
                               !.rope_version = ed.rope_version + 1]
           ELSE ed
      inserted == editor_push_command(e, CMD_INSERT, e.cursor_pos,
                                      clipboard_text, paste_len)
  IN IF clipboard_text = NoString THEN ed
     ELSE IF paste_len = 0 THEN ed
     ELSE [inserted EXCEPT !.rope = rope_insert(e.rope, e.cursor_pos,
                                                SubSeq(clipboard_text, 1,
                                                       paste_len)),
                           !.cursor_pos = e.cursor_pos + paste_len,
                           !.rope_version = e.rope_version + 1]

\* Key codes of editor_handle_event.
XK_Left == 65361

XK_Right == 65363

XK_BackSpace == 65288

XK_Delete == 65407

XK_Return == 65293

\* '\n'
Newline == 10

\* case key == 0xff51: Left, with and without shift
HandleLeft(ed, shift) ==
  LET text == rope_to_string(ed.rope)
      sel == IF shift /\ ~ed.has_selection
             THEN [ed EXCEPT !.has_selection = TRUE,
                             !.selection_start = ed.cursor_pos]
             ELSE IF shift THEN ed
             ELSE [ed EXCEPT !.has_selection = FALSE]
      moved == IF ed.cursor_pos > 0
               THEN [sel EXCEPT !.cursor_pos =
                                  utf8_prev_char_boundary(text, ed.cursor_pos)]
               ELSE sel
  IN WalkedBack(ed, IF shift
                     THEN [moved EXCEPT !.selection_end = moved.cursor_pos]
                     ELSE moved)

\* case key == 0xff53: Right, with and without shift
HandleRight(ed, shift) ==
  LET text == rope_to_string(ed.rope)
      len == rope_length(ed.rope)
      sel == IF shift /\ ~ed.has_selection
             THEN [ed EXCEPT !.has_selection = TRUE,
                             !.selection_start = ed.cursor_pos]
             ELSE IF shift THEN ed
             ELSE [ed EXCEPT !.has_selection = FALSE]
      moved == IF ed.cursor_pos < len
               THEN [sel EXCEPT !.cursor_pos =
                                  utf8_next_char_boundary(text, ed.cursor_pos, len)]
               ELSE sel
  IN IF shift THEN [moved EXCEPT !.selection_end = moved.cursor_pos]
     ELSE moved

\* case key == 0xff08 with cursor_pos > 0: Backspace
HandleBackspace(ed) ==
  LET text == rope_to_string(ed.rope)
      prev_pos == utf8_prev_char_boundary(text, ed.cursor_pos)
      char_len == ed.cursor_pos - prev_pos
      deleted_char == [rope_substr(ed.rope, prev_pos, char_len, 5)
                         EXCEPT ![char_len + 1] = 0]
      pushed == editor_push_command(ed, CMD_DELETE, prev_pos, deleted_char,
                                    char_len)
  IN WalkedBack(ed, [pushed EXCEPT
                       !.rope = rope_delete(ed.rope, prev_pos, char_len),
                       !.cursor_pos = prev_pos,
                       !.rope_version = ed.rope_version + 1])

\* case key == 0xff7f with cursor_pos < rope_length: forward Delete
HandleDelete(ed) ==
  LET text == rope_to_string(ed.rope)
      char_len == utf8_char_length(text, ed.cursor_pos)
      deleted_char == [rope_substr(ed.rope, ed.cursor_pos, char_len, 5)
                         EXCEPT ![char_len + 1] = 0]
      pushed == editor_push_command(ed, CMD_DELETE, ed.cursor_pos,
                                    deleted_char, char_len)
  IN [pushed EXCEPT !.rope = rope_delete(ed.rope, ed.cursor_pos, char_len),
                    !.rope_version = ed.rope_version + 1]

\* case key == 0xff08 || key == 0xff7f
HandleBackspaceOrDelete(ed, key) ==
  LET cleared == [ed EXCEPT !.has_selection = FALSE]
  IN IF key = XK_BackSpace /\ ed.cursor_pos > 0
     THEN HandleBackspace(cleared)
     ELSE IF key = XK_Delete /\ ed.cursor_pos < rope_length(ed.rope)
     THEN HandleDelete(cleared)
     ELSE cleared

\* case key == 0xff0d: Return
HandleReturn(ed) ==
  LET cleared == [ed EXCEPT !.has_selection = FALSE]
      pushed == editor_push_command(cleared, CMD_INSERT, ed.cursor_pos,
                                    <<Newline, 0>>, 1)
  IN [pushed EXCEPT !.rope = rope_insert(ed.rope, ed.cursor_pos, <<Newline>>),
                    !.cursor_pos = ed.cursor_pos + 1,
                    !.rope_version = ed.rope_version + 1]

\* The selection is removed and the cursor is left where it stood.
DeleteSelection_cursor_stays(ed) ==
  LET start == Min(ed.selection_start, ed.selection_end)
      end == Max(ed.selection_start, ed.selection_end)
      length == end - start
      deleted_text == [rope_copy(ed.rope, start, length + 1, length).buf
                         EXCEPT ![length + 1] = 0]
      pushed == editor_push_command(ed, CMD_DELETE, start, deleted_text, length)
  IN [pushed EXCEPT !.rope = rope_delete(ed.rope, start, length),
                    !.has_selection = FALSE,
                    !.rope_version = ed.rope_version + 1]

\* The selection removed before typed text replaces it.
DeleteSelection(ed) ==
  LET start == Min(ed.selection_start, ed.selection_end)
      end == Max(ed.selection_start, ed.selection_end)
      length == end - start
      deleted_text == [rope_copy(ed.rope, start, length + 1, length).buf
                         EXCEPT ![length + 1] = 0]
      pushed == editor_push_command(ed, CMD_DELETE, start, deleted_text, length)
  IN [pushed EXCEPT !.rope = rope_delete(ed.rope, start, length),
                    !.cursor_pos = start,
                    !.has_selection = FALSE,
                    !.rope_version = ed.rope_version + 1]

\* case event->key.text[0] && !ctrl: typed text
HandleText(ed, key_text) ==
  LET e == IF ed.has_selection THEN DeleteSelection(ed) ELSE ed
      text_len == StrLen(key_text)
      pushed == editor_push_command(e, CMD_INSERT, e.cursor_pos, key_text,
                                    text_len)
  IN [pushed EXCEPT !.rope = rope_insert(e.rope, e.cursor_pos,
                                          SubSeq(key_text, 1, text_len)),
                    !.cursor_pos = e.cursor_pos + text_len,
                    !.rope_version = e.rope_version + 1]

\* A key press: the key code, the ctrl and shift modifiers, key.text.
KeyPress(key, ctrl, shift, text) ==
  [key |-> key, ctrl |-> ctrl, shift |-> shift, text |-> text]

\* editor_handle_event for PLATFORM_EVENT_KEY_PRESS with the search bar
\* closed, for the keys select all, undo, redo, Left, Right, Backspace,
\* Delete, Return and typed text.
editor_handle_event(ed, event) ==
  LET key == event.key
      ctrl == event.ctrl
      shift == event.shift
  IN IF ctrl /\ key \in {97, 65} THEN editor_select_all(ed)
     ELSE IF ctrl /\ ~shift /\ key \in {122, 90} THEN editor_undo(ed)
     ELSE IF ctrl /\ (key \in {121, 89} \/ (shift /\ key \in {122, 90}))
     THEN editor_redo(ed)
     ELSE IF key = XK_Left THEN HandleLeft(ed, shift)
     ELSE IF key = XK_Right THEN HandleRight(ed, shift)
     ELSE IF key = XK_BackSpace \/ key = XK_Delete
     THEN HandleBackspaceOrDelete(ed, key)
     ELSE IF key = XK_Return THEN HandleReturn(ed)
     ELSE IF event.text[1] # 0 /\ ~ctrl THEN HandleText(ed, event.text)
     ELSE ed

\* editor_init: an empty rope, the cursor at 0, no selection, empty stacks
editor_init ==
  EditorOf(rope_from_string(rope_init(RopeOf(<<>>, NULL, 0)), <<0>>),
           0, FALSE, 0, 0, <<>>, <<>>, 0)

\* editor_open_file with the bytes read from the file
editor_open_file(ed, bytes) ==
  [ed EXCEPT !.rope = rope_from_string(rope_free(ed.rope), bytes \o <<0>>),
             !.cursor_pos = 0,
             !.rope_version = ed.rope_version + 1]

(* ----------------------- the editor's state machine -------------------- *)
\* Longest text the model lets the editor reach, in bytes.
EdMaxLen == MaxLen - 1

\* Most commands the model lets the undo stack hold before a further edit.
MaxCmds == ROPE_NODE_CAPACITY

\* Largest rope_version from which the model lets a further edit start.
MaxVersion == 2

\* The bytes of a file: an ASCII byte and the two bytes of U+00A9.
FileBytes == {1, 194, 169}

\* key.text of a typed character: its bytes and the NUL.
KeyTexts == {<<1, 0>>, <<194, 169, 0>>}

\* t is a sequence of whole UTF-8 characters.
WholeChars(t) ==
  \A i \in 1..Len(t) :
    /\ utf8_char_length(t, i - 1) = 2 => i < Len(t) /\ IsContinuation(t[i + 1])
    /\ IsContinuation(t[i]) => i > 1 /\ utf8_char_length(t, i - 2) = 2

\* The files the editor is started on.
Files == {t \in SeqsUpTo(FileBytes, EdMaxLen) : WholeChars(t)}

\* The editor the program holds.
Ed ==
  EditorOf(Cur, cursor_pos, has_selection, selection_start, selection_end,
           undo_stack, redo_stack, rope_version)

\* The handler returns and leaves the editor e.
Leaves(e) ==
  /\ Returns(e.rope)
  /\ cursor_pos' = e.cursor_pos
  /\ has_selection' = e.has_selection
  /\ selection_start' = e.selection_start
  /\ selection_end' = e.selection_end
  /\ undo_stack' = e.undo_stack
  /\ redo_stack' = e.redo_stack
  /\ rope_version' = e.rope_version

\* editor_init, then editor_open_file when a file is named on the command line
InitEditor ==
  \E file \in Files :
    \E e \in {editor_open_file(editor_init, file)} :
       /\ heap = Renumber(e.rope.h, e.rope.root)
       /\ root = (IF e.rope.root = NULL THEN NULL ELSE 1)
       /\ total_length = e.rope.total_length
       /\ status = "running"
       /\ last = "init"
       /\ cursor_pos = e.cursor_pos
       /\ has_selection = e.has_selection
       /\ selection_start = e.selection_start
       /\ selection_end = e.selection_end
       /\ undo_stack = e.undo_stack
       /\ redo_stack = e.redo_stack
       /\ rope_version = e.rope_version

\* One action for each key: the branch of editor_handle_event the key takes.
\* a character is typed, no modifier held
TypeText ==
  /\ status = "running"
  /\ Len(undo_stack) < MaxCmds
  /\ rope_version < MaxVersion
  /\ \E text \in KeyTexts :
       /\ total_length + StrLen(text) <= EdMaxLen
       /\ Leaves(HandleText(Ed, text))
  /\ last' = "text"

\* Enter
PressReturn ==
  /\ status = "running"
  /\ Len(undo_stack) < MaxCmds
  /\ rope_version < MaxVersion
  /\ total_length + 1 <= EdMaxLen
  /\ Leaves(HandleReturn(Ed))
  /\ last' = "return"

\* Backspace
PressBackspace ==
  /\ status = "running"
  /\ Len(undo_stack) < MaxCmds
  /\ rope_version < MaxVersion
  /\ Leaves(HandleBackspaceOrDelete(Ed, XK_BackSpace))
  /\ last' = "backspace"

\* forward Delete
PressDelete ==
  /\ status = "running"
  /\ Len(undo_stack) < MaxCmds
  /\ rope_version < MaxVersion
  /\ Leaves(HandleBackspaceOrDelete(Ed, XK_Delete))
  /\ last' = "forward_delete"

\* Left and Right
PressArrow ==
  /\ status = "running"
  /\ \/ Leaves(HandleLeft(Ed, FALSE))
     \/ Leaves(HandleRight(Ed, FALSE))
  /\ last' = "arrow"

\* Ctrl+Z
PressUndo ==
  /\ status = "running"
  /\ rope_version < MaxVersion
  /\ Leaves(editor_undo(Ed))
  /\ last' = "undo"

\* Ctrl+Y
PressRedo ==
  /\ status = "running"
  /\ rope_version < MaxVersion
  /\ Leaves(editor_redo(Ed))
  /\ last' = "redo"

NextEditor ==
  \/ TypeText
  \/ PressReturn
  \/ PressBackspace
  \/ PressDelete
  \/ PressArrow
  \/ PressUndo
  \/ PressRedo

SpecEditor == InitEditor /\ [][NextEditor]_vars

(* ------------- the editor with selections and the clipboard ------------ *)
\* What platform_get_clipboard returns: nothing, the empty string, one byte,
\* and a string one byte longer than a leaf holds.
ClipboardTexts ==
  {NoString, <<0>>, <<2, 0>>, [i \in 1..MaxIns |-> 2] \o <<0>>}

\* Shift+Left and Shift+Right
PressShiftArrow ==
  /\ status = "running"
  /\ \/ Leaves(HandleLeft(Ed, TRUE))
     \/ Leaves(HandleRight(Ed, TRUE))
  /\ last' = "shift_arrow"

\* Ctrl+A
PressSelectAll ==
  /\ status = "running"
  /\ Leaves(editor_select_all(Ed))
  /\ last' = "select_all"

\* Ctrl+X
Cut ==
  /\ status = "running"
  /\ Len(undo_stack) < MaxCmds
  /\ rope_version < MaxVersion
  /\ Leaves(editor_cut(Ed))
  /\ last' = "cut"

\* Ctrl+V
Paste ==
  /\ status = "running"
  /\ Len(undo_stack) < MaxCmds
  /\ rope_version < MaxVersion
  /\ \E clipboard_text \in ClipboardTexts :
       /\ total_length + StrLen(clipboard_text) <= MaxLen
       /\ Leaves(editor_paste(Ed, clipboard_text))
  /\ last' = "paste"

\* a file is opened over the text being edited
OpenFile ==
  /\ status = "running"
  /\ rope_version < MaxVersion
  /\ \E file \in Files : Leaves(editor_open_file(Ed, file))
  /\ last' = "open_file"

\* The editor started without a file: editor_init alone.
InitBlank ==
  \E e \in {editor_init} :
     /\ heap = Renumber(e.rope.h, e.rope.root)
     /\ root = (IF e.rope.root = NULL THEN NULL ELSE 1)
     /\ total_length = e.rope.total_length
     /\ status = "running"
     /\ last = "init"
     /\ cursor_pos = e.cursor_pos
     /\ has_selection = e.has_selection
     /\ selection_start = e.selection_start
     /\ selection_end = e.selection_end
     /\ undo_stack = e.undo_stack
     /\ redo_stack = e.redo_stack
     /\ rope_version = e.rope_version

\* The commands that change the text, and Ctrl+A to select what is cut.
NextCommands ==
  \/ TypeText
  \/ PressReturn
  \/ PressBackspace
  \/ PressDelete
  \/ PressArrow
  \/ PressUndo
  \/ PressRedo
  \/ PressSelectAll
  \/ Cut
  \/ Paste
  \/ OpenFile

SpecCommands == InitBlank /\ [][NextCommands]_vars

\* The keys and the clipboard commands, with Shift+arrow
\* selections.
NextSelect ==
  \/ TypeText
  \/ PressReturn
  \/ PressBackspace
  \/ PressDelete
  \/ PressArrow
  \/ PressUndo
  \/ PressRedo
  \/ PressShiftArrow
  \/ PressSelectAll
  \/ Cut
  \/ Paste

SpecSelect == InitBlank /\ [][NextSelect]_vars

\* The text of the editor, as rope_to_string returns it.
TextOf(ed) == rope_to_string(ed.rope)

\* The key events that edit the text: a typed character, Enter, Backspace
\* and forward Delete.
EditKeys ==
  {KeyPress(text[1], FALSE, FALSE, text) : text \in KeyTexts}
  \cup {KeyPress(XK_Return, FALSE, FALSE, <<13, 0>>),
        KeyPress(XK_BackSpace, FALSE, FALSE, <<8, 0>>),
        KeyPress(XK_Delete, FALSE, FALSE, <<127, 0>>)}

\* C20: with no selection active, one editor_undo right after a typed
\* character, Enter, Backspace or forward Delete restores the text and
\* cursor_pos to their values before the edit, and two undos after two such
\* edits restore the text before the two edits.
C20_UndoRestoresTextAndCursor ==
  (status = "running" /\ ~has_selection) =>
    \A e1 \in EditKeys :
      \A a \in {editor_handle_event(Ed, e1)} :
        a.undo_stack # undo_stack =>
          /\ \A u \in {editor_undo(a)} :
               TextOf(u) = TextOf(Ed) /\ u.cursor_pos = cursor_pos
          /\ \A e2 \in EditKeys :
               \A b \in {editor_handle_event(a, e2)} :
                 b.undo_stack # a.undo_stack =>
                   TextOf(editor_undo(editor_undo(b))) = TextOf(Ed)

\* The editor after each edit that ed can take and that records a command:
\* a typed character, Enter, Backspace, forward Delete, cut and paste.
EditsOf(ed) ==
  {a \in {HandleText(ed, text) : text \in KeyTexts}
         \cup {HandleReturn(ed),
               HandleBackspaceOrDelete(ed, XK_BackSpace),
               HandleBackspaceOrDelete(ed, XK_Delete),
               editor_cut(ed)}
         \cup {editor_paste(ed, clipboard_text) :
                 clipboard_text \in ClipboardTexts} :
     a.undo_stack # ed.undo_stack}

\* C21: right after any edit, editor_undo followed by editor_redo gives
\* back the text and cursor_pos the edit left; after two edits and two
\* undos, one redo gives the text after the first edit and two redos the
\* text after the second.
C21_RedoRestoresTextAndCursor ==
  status = "running" =>
    \A a \in EditsOf(Ed) :
      /\ \A r \in {editor_redo(editor_undo(a))} :
           TextOf(r) = TextOf(a) /\ r.cursor_pos = a.cursor_pos
      /\ \A b \in EditsOf(a) :
           \A u \in {editor_undo(editor_undo(b))} :
             /\ TextOf(editor_redo(u)) = TextOf(editor_undo(b))
             /\ TextOf(editor_redo(editor_redo(u))) = TextOf(b)

\* The text T with its bytes [lo, hi) replaced by chars.
Replaced(T, lo, hi, chars) ==
  SubSeq(T, 1, lo) \o chars \o SubSeq(T, hi + 1, Len(T))

\* A selection is active and its bounds lie inside the text the rope holds.
SelectionInside(ed) ==
  /\ ed.has_selection
  /\ Max(ed.selection_start, ed.selection_end) <= Len(Content(ed.rope))

\* C22 as stated: a character typed over a selection [lo, hi) inside the
\* text T leaves the text T[0..lo) + character + T[hi..), cursor_pos = lo + 1
\* and no selection.
C22_TypedCharReplacesSelection ==
  (status = "running" /\ SelectionInside(Ed)) =>
    \A key_text \in KeyTexts :
      \A a \in {HandleText(Ed, key_text)} :
        \A lo \in {Min(selection_start, selection_end)} :
          /\ Content(a.rope) =
               Replaced(Content(Cur), lo, Max(selection_start, selection_end),
                        SubSeq(key_text, 1, StrLen(key_text)))
          /\ a.cursor_pos = lo + 1
          /\ ~a.has_selection

\* C22 amended: as stated, but cursor_pos is lo plus the number of bytes of
\* the typed character (lo + 1 for a one-byte character).
C22_TypedTextReplacesSelection ==
  (status = "running" /\ SelectionInside(Ed)) =>
    \A key_text \in KeyTexts :
      \A a \in {HandleText(Ed, key_text)} :
        \A lo \in {Min(selection_start, selection_end)} :
          /\ Content(a.rope) =
               Replaced(Content(Cur), lo, Max(selection_start, selection_end),
                        SubSeq(key_text, 1, StrLen(key_text)))
          /\ a.cursor_pos = lo + StrLen(key_text)
          /\ ~a.has_selection
          /\ a.rope.fault = "no"

\* A two-byte character has been typed over a selection of at least one
\* byte that ended at the cursor.
C22_Witness ==
  /\ status = "running"
  /\ last = "text"
  /\ Len(undo_stack) >= 2
  /\ \E n \in {Len(undo_stack)} :
       /\ undo_stack[n - 1].type = CMD_DELETE
       /\ undo_stack[n - 1].length > 0
       /\ undo_stack[n].type = CMD_INSERT
       /\ undo_stack[n].length = 2
       /\ undo_stack[n].pos = undo_stack[n - 1].pos
       /\ cursor_pos = undo_stack[n].pos + 2

\* editor_render's test of its text cache: the cache holds cached_text,
\* made when rope_version was cached_text_version.
cache_is_stale(version, cached_text, cached_text_version) ==
  version # cached_text_version \/ cached_text = NoString

\* C23: every step of a command that changes the rope (a typed character,
\* Enter, Backspace, Delete, cut, paste, undo, redo, open file) leaves
\* rope_version strictly larger, and a text cached at any version up to the
\* one before the step is found stale after it.
C23_ChangeRaisesVersion ==
  [][RopeOf(heap', root', total_length') # Cur =>
       /\ rope_version' > rope_version
       /\ \A cached_text_version \in 0..rope_version :
            cache_is_stale(rope_version', TextOf(Ed), cached_text_version)]_vars

\* A typed character has been undone: the text is empty again and
\* rope_version counts the two changes.
C23_Witness ==
  /\ status = "running"
  /\ last = "undo"
  /\ redo_stack # <<>>
  /\ undo_stack = <<>>
  /\ rope_version = 2

\* C24: every edit that records a command (typed character, Enter,
\* Backspace, Delete, cut, paste) leaves the redo stack empty, and an
\* editor_redo right after it leaves the editor as it is: the same text, the
\* same undo stack.
C24_NewEditDropsRedo ==
  status = "running" =>
    \A a \in EditsOf(Ed) :
      /\ a.redo_stack = <<>>
      /\ \A r \in {editor_redo(a)} :
           /\ TextOf(r) = TextOf(a)
           /\ r.undo_stack = a.undo_stack
           /\ r = a

\* An edit has been undone and waits on the redo stack, the state in which
\* the new edit starts.
C24_Witness ==
  /\ status = "running"
  /\ last = "undo"
  /\ redo_stack # <<>>
  /\ redo_stack[Len(redo_stack)].length > 0

(* ------------------------ routing and rebalancing ---------------------- *)
\* C25 as stated: at every internal node and for every pos, insert, delete
\* and copy all recurse into the left child exactly when pos <= weight.
C25_OneRoutingRule ==
  status = "running" =>
    \A n \in InternalsOf(heap, root) :
      \A pos \in 0..LeafSum(heap, n) :
        /\ rope_node_insert_routes_left(heap, n, pos) <=> pos <= heap[n].weight
        /\ rope_node_delete_routes_left(heap, n, pos) <=> pos <= heap[n].weight
        /\ rope_node_copy_routes_left(heap, n, pos) <=> pos <= heap[n].weight

\* C25 amended: with W the bytes under the left child, insert recurses left
\* exactly when pos <= W, delete and copy exactly when pos < W.  At pos = W
\* an inserted byte lands between the bytes of the two children, and delete
\* and copy take the first byte of the right child.
C25_InsertInclusiveOthersStrict ==
  status = "running" =>
    \A n \in InternalsOf(heap, root) :
      \A W \in {LeafSum(heap, heap[n].left)} :
        /\ \A pos \in 0..LeafSum(heap, n) :
             /\ rope_node_insert_routes_left(heap, n, pos) <=> pos <= W
             /\ rope_node_delete_routes_left(heap, n, pos) <=> pos < W
             /\ rope_node_copy_routes_left(heap, n, pos) <=> pos < W
        /\ \A ins \in {rope_node_insert(heap, n, W, <<0>>)} :
             BytesOf(ins.h, ins.p) =
               BytesOf(heap, heap[n].left) \o <<0>>
                 \o BytesOf(heap, heap[n].right)
        /\ LeafSum(heap, heap[n].right) > 0 =>
             /\ \A del \in {rope_node_delete(heap, n, W, 1)} :
                  BytesOf(del.h, del.p) =
                    BytesOf(heap, heap[n].left)
                      \o Tail(BytesOf(heap, heap[n].right))
             /\ rope_node_copy(heap, n, W, <<Unwritten>>, 0, 1).buf =
                  <<BytesOf(heap, heap[n].right)[1]>>

\* A tree is held with an internal node that has bytes under both children.
C25_Witness ==
  /\ status = "running"
  /\ \E n \in InternalsOf(heap, root) :
       /\ LeafSum(heap, heap[n].left) > 0
       /\ LeafSum(heap, heap[n].right) > 0
       /\ Cardinality(InternalsOf(heap, root)) >= 3

\* The rope under edits whose bytes are all alike: the shapes of the tree.
ShapeMaxLen == MaxLen + 2

\* The n bytes 1, 1, ..., 1.
Ones(n) == [i \in 1..n |-> 1]

\* rope_insert(pos, str, len) of a run of equal bytes
InsertOnes ==
  /\ status = "running"
  /\ \E pos \in 0..total_length, len \in 1..MaxIns :
       /\ total_length + len <= ShapeMaxLen
       /\ Returns(rope_insert(Cur, pos, Ones(len)))
  /\ last' = "insert"
  /\ UNCHANGED edvars

NextShape == InsertOnes \/ DeleteRange \/ Free

SpecShape == Init /\ [][NextShape]_vars

\* C26: when the tree held is not empty and balanced, it is balanced again
\* after one rope_insert of len >= 1 bytes at any pos in [0, length], also
\* when the insert splits a leaf into a subtree of height 3.
C26_InsertKeepsBalance ==
  (status = "running" /\ root # NULL /\ Balanced(heap, root)) =>
    \A pos \in 0..total_length, len \in 1..MaxIns :
      \A r \in {rope_insert(Cur, pos, Ones(len))} :
        Balanced(r.h, r.root)

\* Inserts have split leaves at several depths: the tree held after an
\* insert is balanced and has height 4.
C26_Witness ==
  /\ status = "running"
  /\ last = "insert"
  /\ Height(heap, root) >= 4
  /\ Balanced(heap, root)

\* Text typed byte by byte at the end of the buffer, as long as makes the
\* tree nine leaves deep enough for a range to unbalance it.
TypedMax == 8 * ROPE_NODE_CAPACITY + 1
TypedNodes == 4 * TypedMax

\* rope_insert(rope_length, c, 1): one byte typed at the end.  The runs are
\* those of a text typed and then cut down: no byte is typed after a delete
\* until the buffer is freed.
TypeAtEnd ==
  /\ status = "running"
  /\ last # "delete"
  /\ total_length < TypedMax
  /\ ReturnsWithin(rope_insert(Cur, total_length, <<1>>), TypedNodes)
  /\ last' = "insert"
  /\ UNCHANGED edvars

\* rope_delete(0, len): a range removed from the start of the buffer
DeleteFront ==
  /\ status = "running"
  /\ \E len \in 1..total_length :
       ReturnsWithin(rope_delete(Cur, 0, len), TypedNodes)
  /\ last' = "delete"
  /\ UNCHANGED edvars

NextTyped == TypeAtEnd \/ DeleteFront \/ Free

SpecTyped == Init /\ [][NextTyped]_vars

\* C27: when the tree held is balanced, it is balanced again after one
\* rope_delete(pos, len) for every pos and every len, also a range that
\* removes many leaves.
C27_DeleteKeepsBalance ==
  (status = "running" /\ Balanced(heap, root)) =>
    \A pos \in 0..total_length, len \in 1..(total_length + 1) :
      \A r \in {rope_delete(Cur, pos, len)} :
        Balanced(r.h, r.root)

(* --------------------- rope_node_balance on its own --------------------- *)
\* The heights of the subtrees rope_node_balance is handed.
SubtreeHeights == 1..(ROPE_NODE_CAPACITY + 1)

\* The shapes of the balanced trees of height n with two children at every
\* internal node: <<>> is a leaf, <<l, r>> an internal node.
RECURSIVE AVLShapes(_)
AVLShapes(n) ==
  IF n <= 0 THEN {}
  ELSE IF n = 1 THEN {<<>>}
  ELSE {<<l, r>> : l \in AVLShapes(n - 1),
                   r \in AVLShapes(n - 1) \cup AVLShapes(n - 2)}
       \cup {<<l, r>> : l \in AVLShapes(n - 2), r \in AVLShapes(n - 1)}

\* The tree of a shape, built with rope_node_create_leaf and
\* rope_node_create_internal; the k-th leaf built holds one or more bytes k.
RECURSIVE BuildTree(_, _)
BuildTree(h, shape) ==
  IF shape = <<>>
  THEN LET k == Cardinality({q \in DOMAIN h : h[q].is_leaf}) + 1
           len == 1 + (k % ROPE_NODE_CAPACITY)
       IN rope_node_create_leaf(h, [i \in 1..len |-> k], len)
  ELSE LET l == BuildTree(h, shape[1])
           r == BuildTree(l.h, shape[2])
       IN rope_node_create_internal(r.h, l.p, r.p)

\* An internal node over two balanced subtrees whose heights differ by at
\* most 2, with the height and weight it cached before its subtrees changed.
InitBalance ==
  /\ \E a \in SubtreeHeights, b \in SubtreeHeights :
       /\ a - b \in -2..2
       /\ \E l \in AVLShapes(a), r \in AVLShapes(b) :
            LET L == BuildTree(<<>>, l)
                R == BuildTree(L.h, r)
                node == New(R.h)
            IN \E height \in 1..(Max(a, b) + 1),
                  weight \in {0, LeafSum(L.h, L.p)} :
                 /\ heap = Renumber(Store(R.h, node,
                              [RopeNode EXCEPT !.is_leaf = FALSE,
                                               !.left = L.p, !.right = R.p,
                                               !.height = height,
                                               !.weight = weight]), node)
                 /\ total_length = LeafSum(R.h, L.p) + LeafSum(R.h, R.p)
  /\ root = 1
  /\ status = "running"
  /\ last = "init"
  /\ cursor_pos = 0
  /\ has_selection = FALSE
  /\ selection_start = 0
  /\ selection_end = 0
  /\ undo_stack = <<>>
  /\ redo_stack = <<>>
  /\ rope_version = 0

\* rope_node_balance(node); `last` tells whether it returned another node
Balance ==
  /\ last = "init"
  /\ \E r \in {rope_node_balance(heap, root)} :
       /\ heap' = Renumber(r.h, r.p)
       /\ root' = 1
       /\ last' = IF r.p = root THEN "balanced" ELSE "rotated"
  /\ UNCHANGED <<total_length, status>>
  /\ UNCHANGED edvars

SpecBalance == InitBalance /\ [][Balance]_vars

\* Every node under node caches its height, and its weight: the bytes of
\* the left subtree at an internal node, the length at a leaf.
CachedRight(h, node) ==
  /\ \A n \in InternalsOf(h, node) :
       /\ h[n].height = Height(h, n)
       /\ h[n].weight = LeafSum(h, h[n].left)
  /\ \A i \in 1..Len(LeavesOf(h, node)) :
       \A leaf \in {h[LeavesOf(h, node)[i]]} :
         leaf.height = 1 /\ leaf.weight = leaf.length

\* The leaves under node from left to right, each by its bytes.
LeafRow(h, node) ==
  [i \in 1..Len(LeavesOf(h, node)) |-> h[LeavesOf(h, node)[i]].data]

\* The child pointers of every node.
Links(h) == [n \in DOMAIN h |-> <<h[n].left, h[n].right>>]

\* C28: rope_node_balance on an internal node over two balanced subtrees
\* with balance factor +2 or -2 returns a subtree that is balanced at every
\* node, caches the right heights and weights and has the same leaves from
\* left to right; with a balance factor in [-1, 1] it returns the node it
\* was given, over the same structure.
C28_BalanceRepairs ==
  [][last' \in {"balanced", "rotated"} =>
       \A bf \in {Height(heap, heap[root].left)
                    - Height(heap, heap[root].right)} :
         /\ (/\ bf \in {-2, 2}
             /\ Balanced(heap, heap[root].left)
             /\ Balanced(heap, heap[root].right)) =>
               /\ Balanced(heap', root')
               /\ CachedRight(heap', root')
               /\ LeafRow(heap', root') = LeafRow(heap, root)
         /\ bf \in -1..1 =>
               /\ rope_node_balance(heap, root).p = root
               /\ Links(heap') = Links(heap)
               /\ LeafRow(heap', root') = LeafRow(heap, root)]_vars

\* rope_node_balance has rotated a node with balance factor +2 or -2 over
\* four leaves into the tree of height 3 with two leaves at either side.
C28_Witness ==
  /\ last = "rotated"
  /\ Height(heap, root) = 3
  /\ Len(LeavesOf(heap, root)) = 4
  /\ Height(heap, heap[root].left) = 2
  /\ Height(heap, heap[root].right) = 2

\* C29: in every state a public operation leaves, the cached height of
\* every internal node is 1 + the greater of the cached heights of its
\* children, and the cached height of every leaf is 1.
C29_CachedHeights ==
  /\ \A n \in InternalsOf(heap, root) :
       heap[n].height =
         1 + Max(rope_node_get_height(heap, heap[n].left),
                 rope_node_get_height(heap, heap[n].right))
  /\ \A i \in 1..Len(LeavesOf(heap, root)) :
       heap[LeavesOf(heap, root)[i]].height = 1

\* A delete has returned and left a tree of height 3 or more, whose
\* internal nodes lie on paths that inserts and the delete rebalanced.
C29_Witness ==
  /\ status = "running"
  /\ last = "delete"
  /\ Height(heap, root) >= 3
  /\ Cardinality(InternalsOf(heap, root)) >= 3

\* C30: rope_node_insert of 1..ROPE_NODE_CAPACITY bytes at offset off of a
\* leaf that cannot take them returns internal(internal(left, new), right):
\* left holds the leaf's bytes [0, off), new the inserted bytes, right the
\* leaf's bytes [off, length); the bytes under the result are the leaf's
\* with the new ones spliced in at off, and the old leaf is gone.
C30_SplitIntoThreeLeaves ==
  \A i \in 1..Len(LeavesOf(heap, root)) :
    \A leaf \in {LeavesOf(heap, root)[i]} :
      \A off \in 0..heap[leaf].length,
         str \in {Iota(len) : len \in {n \in 1..ROPE_NODE_CAPACITY :
                    heap[leaf].length + n > ROPE_NODE_CAPACITY}} :
        \A r \in {rope_node_insert(heap, leaf, off, str)} :
          \A left_tree \in {r.h[r.p].left}, right_node \in {r.h[r.p].right} :
            /\ r.fault = "no"
            /\ ~r.h[r.p].is_leaf
            /\ ~r.h[left_tree].is_leaf
            /\ \A left_node \in {r.h[left_tree].left},
                  new_text_node \in {r.h[left_tree].right} :
                 /\ r.h[left_node].is_leaf
                 /\ r.h[left_node].data = SubSeq(heap[leaf].data, 1, off)
                 /\ r.h[new_text_node].is_leaf
                 /\ r.h[new_text_node].data = str
            /\ r.h[right_node].is_leaf
            /\ r.h[right_node].data =
                 SubSeq(heap[leaf].data, off + 1, heap[leaf].length)
            /\ BytesOf(r.h, r.p) = Splice(heap[leaf].data, off, str)
            /\ leaf \notin ReachFrom(r.h, {r.p}, Cardinality(DOMAIN r.h) + 1)
            /\ leaf \notin DOMAIN r.h

\* A tree is held with a full leaf below the root and a leaf that is not
\* full: a split in the middle of a leaf and splits by one and by two bytes.
C30_Witness ==
  /\ status = "running"
  /\ last = "insert"
  /\ root # NULL
  /\ ~heap[root].is_leaf
  /\ \E i \in 1..Len(LeavesOf(heap, root)) :
       heap[LeavesOf(heap, root)[i]].length = ROPE_NODE_CAPACITY
  /\ \E i \in 1..Len(LeavesOf(heap, root)) :
       heap[LeavesOf(heap, root)[i]].length \in 1..(ROPE_NODE_CAPACITY - 1)

(* --------------------------- whole-buffer edits ------------------------ *)
\* C31: for every buffer held that is not empty, rope_delete(0, rope_length)
\* leaves the empty buffer: root is null and total_length is 0.
C31_DeleteAllEmpties ==
  (status = "running" /\ root # NULL /\ total_length > 0) =>
    \A r \in {rope_delete(Cur, 0, rope_length(Cur))} :
      r.root = NULL /\ r.total_length = 0

\* C32: rope_delete(pos, len) with pos >= rope_length, for any len, leaves
\* the bytes held, the shape of the tree and total_length as they were.
C32_DeletePastEndChangesNothing ==
  status = "running" =>
    \A pos \in total_length..(total_length + 2),
       len \in 0..(total_length + 2) :
      \A r \in {rope_delete(Cur, pos, len)} :
        /\ Content(r) = Content(Cur)
        /\ r.root = root
        /\ Links(r.h) = Links(heap)
        /\ r.total_length = total_length

(* ------------------- the rope against a flat byte string --------------- *)
\* The texts of one insert that a leaf can hold: for every length one text
\* of pairwise different bytes.
LeafStrings == {Iota(n) : n \in 1..ROPE_NODE_CAPACITY}

\* The longest text the inserts of SpecFlat build.
FlatMaxLen == MaxLen - 1

\* rope_insert(pos, str, len) with pos in [0, length] and
\* 1 <= len <= ROPE_NODE_CAPACITY
InsertLeafString ==
  /\ status = "running"
  /\ \E pos \in 0..total_length, str \in LeafStrings :
       /\ total_length + Len(str) <= FlatMaxLen
       /\ Returns(rope_insert(Cur, pos, str))
  /\ last' = "insert"
  /\ UNCHANGED edvars

\* rope_delete(pos, len) with pos < length
DeleteInside ==
  /\ status = "running"
  /\ \E pos \in 0..(total_length - 1), len \in 1..(total_length + 1) :
       Returns(rope_delete(Cur, pos, len))
  /\ last' = "delete"
  /\ UNCHANGED edvars

NextFlat == InsertLeafString \/ DeleteInside

SpecFlat == Init /\ [][NextFlat]_vars

\* C33: along every sequence of inserts (valid pos, 1 <= len <=
\* ROPE_NODE_CAPACITY) and deletes (pos < length) from the empty buffer the
\* rope is a flat byte string T: rope_to_string gives T and rope_length its
\* length, and every further insert or delete gives the string and the
\* length of T with the same bytes spliced in or erased.
C33_RefinesFlatString ==
  \A T \in {Content(Cur)} :
    /\ status = "running"
    /\ rope_length(Cur) = Len(T)
    /\ rope_to_string(Cur) = T \o <<0>>
    /\ \A pos \in 0..total_length, str \in LeafStrings :
         \A r \in {rope_insert(Cur, pos, str)} :
           /\ r.fault = "no"
           /\ rope_to_string(r) = Splice(T, pos, str) \o <<0>>
           /\ rope_length(r) = Len(T) + Len(str)
    /\ \A pos \in 0..(total_length - 1), len \in 1..(total_length + 1) :
         \A r \in {rope_delete(Cur, pos, len)} :
           /\ rope_to_string(r) = Erase(T, pos, len) \o <<0>>
           /\ rope_length(r) = Len(Erase(T, pos, len))

\* Inserts and deletes have left a tree of several leaves whose bytes are
\* not all alike.
C33_Witness ==
  /\ last = "delete"
  /\ Cardinality(InternalsOf(heap, root)) >= 2
  /\ total_length >= 2
  /\ \E i \in 1..total_length : Content(Cur)[i] # Content(Cur)[1]

(* ------------------------------ bulk build ----------------------------- *)
\* C34: the tree rope_insert or rope_from_string builds from n >= 1 bytes on
\* the empty buffer has ceil(n / ROPE_NODE_CAPACITY) leaves, none of them
\* empty and all of them full but possibly the last from left to right; for
\* n <= ROPE_NODE_CAPACITY it is one leaf.
C34_BulkLeavesFull ==
  (last \in {"insert", "from_string"} /\ root # NULL) =>
    \A row \in {LeafRow(heap, root)}, n \in {total_length} :
      /\ Len(row) = (n + ROPE_NODE_CAPACITY - 1) \div ROPE_NODE_CAPACITY
      /\ \A i \in 1..Len(row) : Len(row[i]) > 0
      /\ \A i \in 1..(Len(row) - 1) : Len(row[i]) = ROPE_NODE_CAPACITY
      /\ n <= ROPE_NODE_CAPACITY => heap[root].is_leaf

\* A bulk build has returned a tree of three leaves or more whose last
\* leaf is not full.
C34_Witness ==
  /\ last \in {"insert", "from_string"}
  /\ root # NULL
  /\ Len(LeavesOf(heap, root)) >= 3
  /\ heap[LeavesOf(heap, root)[Len(LeavesOf(heap, root))]].length
       < ROPE_NODE_CAPACITY

(* ------------------------- writes into a leaf -------------------------- *)
\* The index at which the operation that last wrote the leaf put the
\* terminating NUL: node->data[node->length] = 0 after create, insert in
\* place and delete.
NulIndex(h, node) == h[node].length

\* C35: every write into data[ROPE_NODE_CAPACITY] of a leaf, the terminating
\* NUL at index length included, is at an index in
\* [0, ROPE_NODE_CAPACITY - 1], also in a leaf filled to the capacity.
C35_WritesInsideData ==
  \A i \in 1..Len(LeavesOf(heap, root)) :
    \A leaf \in {LeavesOf(heap, root)[i]} :
      /\ \A k \in 1..Len(heap[leaf].data) : k - 1 \in 0..(ROPE_NODE_CAPACITY - 1)
      /\ NulIndex(heap, leaf) \in 0..(ROPE_NODE_CAPACITY - 1)

(* --------------------------- the undo limit ---------------------------- *)
\* Edits enough to fill the undo stack and push two commands more.
UndoLimitEdits == MAX_UNDO_STACK + 2

\* a character typed into the empty text
TypeOneChar ==
  /\ status = "running"
  /\ total_length = 0
  /\ rope_version < UndoLimitEdits
  /\ Leaves(HandleText(Ed, <<1, 0>>))
  /\ last' = "text"

\* Backspace after the character typed
BackspaceOneChar ==
  /\ status = "running"
  /\ total_length > 0
  /\ rope_version < UndoLimitEdits
  /\ Leaves(HandleBackspaceOrDelete(Ed, XK_BackSpace))
  /\ last' = "backspace"

NextUndoLimit == TypeOneChar \/ BackspaceOneChar

SpecUndoLimit == InitBlank /\ [][NextUndoLimit]_vars

\* C36: the undo stack never holds more than MAX_UNDO_STACK commands; the
\* push of an edit (a typed character, a Backspace that removes one) onto a
\* full stack drops the oldest command and keeps the others in order below
\* the new one.
C36_UndoStackBounded ==
  [][/\ Len(undo_stack') <= MAX_UNDO_STACK
     /\ (/\ Len(undo_stack) = MAX_UNDO_STACK
         /\ last' \in {"text", "backspace"}
         /\ rope_version' # rope_version) =>
           /\ Len(undo_stack') = MAX_UNDO_STACK
           /\ SubSeq(undo_stack', 1, MAX_UNDO_STACK - 1) = Tail(undo_stack)
           /\ undo_stack'[MAX_UNDO_STACK].type =
                IF last' = "text" THEN CMD_INSERT ELSE CMD_DELETE]_vars

\* More commands than the stack holds have been pushed and the stack is full.
C36_Witness ==
  /\ Len(undo_stack) = MAX_UNDO_STACK
  /\ rope_version > MAX_UNDO_STACK

(* ------------------- the selection and the text's length --------------- *)
\* Both ends of the selection lie inside the text.
SelectionInsideText(ed) ==
  /\ ed.selection_start <= rope_length(ed.rope)
  /\ ed.selection_end <= rope_length(ed.rope)

\* C37: after any sequence of key events (typing, Enter, Backspace, Delete,
\* Shift+arrow, select-all, cut, paste, undo, redo), whenever has_selection
\* is true both selection_start and selection_end are <= rope_length.
C37_SelectionInsideText ==
  (status = "running" /\ has_selection) => SelectionInsideText(Ed)

(* ---------------- a file opened over a text with history --------------- *)
\* Largest rope_version from which a further edit starts when files are
\* opened over edited text: a text, an edit inside it, the file opened over
\* it and the undo of the edit are four changes of the rope.
ReopenVersions == MaxVersion + 2

\* a character is typed
TypeInFile ==
  /\ status = "running"
  /\ Len(undo_stack) < MaxCmds
  /\ rope_version < ReopenVersions
  /\ \E text \in KeyTexts :
       /\ total_length + StrLen(text) <= EdMaxLen
       /\ Leaves(HandleText(Ed, text))
  /\ last' = "text"

\* a file is opened over the text
Reopen ==
  /\ status = "running"
  /\ rope_version < ReopenVersions
  /\ \E file \in Files : Leaves(editor_open_file(Ed, file))
  /\ last' = "open_file"

\* Ctrl+Z
UndoInFile ==
  /\ status = "running"
  /\ rope_version < ReopenVersions
  /\ Leaves(editor_undo(Ed))
  /\ last' = "undo"

\* Ctrl+Y
RedoInFile ==
  /\ status = "running"
  /\ rope_version < ReopenVersions
  /\ Leaves(editor_redo(Ed))
  /\ last' = "redo"

NextReopen ==
  \/ TypeInFile
  \/ PressArrow
  \/ Reopen
  \/ UndoInFile
  \/ RedoInFile

SpecReopen == InitBlank /\ [][NextReopen]_vars

\* C38: after any sequence of editor operations (key events, cut, paste,
\* undo, redo and editor_open_file replacing the content), cursor_pos is
\* <= rope_length.
C38_CursorInsideText ==
  status = "running" => cursor_pos <= rope_length(Cur)
====
